---- MODULE Spec2Model ----
(***************************************************************************)
(* Model of the avt_341 PID controller (src/src/control/pid_controller.cpp)*)
(* and of the local planner's Candidate path                               *)
(* (src/include/avt_341/planning/local/candidate.h).                       *)
(*                                                                         *)
(* Numbers.  The controller works on doubles.  The model keeps them exact: *)
(*   - gains kp, ki, kd are integers in hundredths (0.3 is 30, 0.05 is 5); *)
(*   - setpoint, measured value, error and dt are integers;                *)
(*   - integral is an integer (error * dt);                                *)
(*   - the derivative is kept in units of 1/DerivScale, DerivScale being a *)
(*     multiple of every dt the model uses, so (error - previous)/dt is    *)
(*     exact;                                                              *)
(*   - the returned output is in units of 1/(100 * DerivScale).            *)
(* A division by dt = 0 follows IEEE 754: x/0 is an infinity carrying the  *)
(* sign of x, 0/0 is a NaN.                                                *)
(***************************************************************************)
EXTENDS Integers, Sequences, FiniteSets, TLC

VARIABLES pid, twin, before, last, output, twin_output, calls, sum,
          cand, lastc, ops

vars == <<pid, twin, before, last, output, twin_output, calls, sum,
          cand, lastc, ops>>

pidvars == <<pid, twin, before, last, output, twin_output, calls, sum>>

candvars == <<cand, lastc, ops>>

(***************************************************************************)
(* Bounds and input sets                                                   *)
(***************************************************************************)
MaxCalls == 3

MaxDt == 2

RECURSIVE Factorial(_)
Factorial(n) == IF n <= 1 THEN 1 ELSE n * Factorial(n - 1)

DerivScale == Factorial(MaxDt)

DtValues == {-1, 0} \cup (1 .. MaxDt)

MeasuredValues == {-1, 0, 1}

SetpointValues == {0, 10}

KpValues == {30, 100}

KiValues == {0, 10}

KdValues == {5, 20}

MaxOps == 3

CandidateIds == {1, 2}

\* cubic polynomials, coefficients a0 .. a3 of rho(s) = a0 + a1 s + a2 s^2 + a3 s^3
Polynomials == {<<0, 0, 0, 0>>, <<1, 2, 3, 4>>}

\* values handed to the float setters
FloatValues == {0, 1}

\* values a float member holds when nothing has been stored in it yet
Indeterminate == {0, 1}

RankValues == {0, 1}

(***************************************************************************)
(* Doubles that may be non-finite (only the derivative and the output)     *)
(***************************************************************************)
Sign(x) == IF x > 0 THEN 1 ELSE IF x < 0 THEN -1 ELSE 0

Finite(v) == [kind |-> "finite", val |-> v]

Infinite(s) == [kind |-> "inf", val |-> s]

NaN == [kind |-> "nan", val |-> 0]

(***************************************************************************)
(* PidController                                                           *)
(***************************************************************************)
PidController ==
    [kp |-> 30, ki |-> 0, kd |-> 5, setpoint |-> 0,
     previous_error |-> 0, integral |-> 0,
     overshoot_limiter |-> TRUE, crossed_setpoint |-> FALSE]

ErrorReversed(c, measured_value) == measured_value - c.setpoint

\* line 20
Error(c, measured_value) == c.setpoint - measured_value

CrossingNonStrict(c, error) ==
    c.overshoot_limiter /\ error * c.previous_error <= 0

CrossingUnguarded(c, error) == error * c.previous_error < 0

\* lines 24-25: the guard of the reset
Crossing(c, error) ==
    c.overshoot_limiter /\ error * c.previous_error < 0

IntegralKept(c, crossing) == c.integral

\* line 26
IntegralAfterReset(c, crossing) == IF crossing THEN 0 ELSE c.integral

CrossedUnlatched(c, crossing) == crossing

\* line 27
CrossedAfterReset(c, crossing) ==
    IF crossing THEN TRUE ELSE c.crossed_setpoint

KiAlways(c, crossed) == c.ki

\* lines 31-34
EffectiveKi(c, crossed) ==
    IF (~crossed) /\ c.overshoot_limiter THEN 0 ELSE c.ki

\* line 37
PidDerivative(error, previous_error, dt) ==
    IF dt = 0
    THEN IF error - previous_error = 0
         THEN NaN
         ELSE Infinite(Sign(error - previous_error))
    ELSE Finite(((error - previous_error) * DerivScale) \div dt)

\* line 38
Output(kp, ki, kd, error, integral, derivative) ==
    IF derivative.kind = "finite"
    THEN Finite(kp * error * DerivScale + ki * integral * DerivScale
                + kd * derivative.val)
    ELSE IF derivative.kind = "nan" \/ kd = 0
         THEN NaN
         ELSE Infinite(Sign(kd) * derivative.val)

\* lines 19-41: the whole call; it has no path that rejects its arguments
GetControlVariable(c, measured_value, dt) ==
    LET error      == Error(c, measured_value)
        crossing   == Crossing(c, error)
        integral0  == IntegralAfterReset(c, crossing)
        crossed    == CrossedAfterReset(c, crossing)
        ki         == EffectiveKi(c, crossed)
        integral1  == integral0 + error * dt
        derivative == PidDerivative(error, c.previous_error, dt)
        out        == Output(c.kp, ki, c.kd, error, integral1, derivative)
    IN  [ctl |-> [c EXCEPT !.integral = integral1,
                           !.crossed_setpoint = crossed,
                           !.previous_error = error],
         ret |-> [status |-> "returned", kind |-> out.kind, val |-> out.val]]

NoOutput == [status |-> "none", kind |-> "finite", val |-> 0]

NoCall == [measured_value |-> 0, dt |-> 0]

\* the controller right after its constructor; no candidate exists
PidInit ==
    /\ pid = PidController
    /\ twin = PidController
    /\ before = PidController
    /\ last = NoCall
    /\ output = NoOutput
    /\ twin_output = NoOutput
    /\ calls = 0
    /\ sum = 0
    /\ cand = << >>
    /\ lastc = << >>
    /\ ops = 0

(* The setters live in pid_controller.h.  Gains and the limiter flag are   *)
(* configuration, fixed before the first update; the setpoint may step at  *)
(* any time.  The twin is a second controller that receives the same calls *)
(* and differs from pid in ki only.                                        *)
SetKp(v) ==
    /\ calls = 0
    /\ pid' = [pid EXCEPT !.kp = v]
    /\ twin' = [twin EXCEPT !.kp = v]
    /\ before' = pid'
    /\ UNCHANGED <<last, output, twin_output, calls, sum, candvars>>

SetKi(v) ==
    /\ calls = 0
    /\ pid' = [pid EXCEPT !.ki = v]
    /\ before' = pid'
    /\ UNCHANGED <<twin, last, output, twin_output, calls, sum, candvars>>

SetTwinKi(v) ==
    /\ calls = 0
    /\ twin' = [twin EXCEPT !.ki = v]
    /\ UNCHANGED <<pid, before, last, output, twin_output, calls, sum,
                   candvars>>

SetKd(v) ==
    /\ calls = 0
    /\ pid' = [pid EXCEPT !.kd = v]
    /\ twin' = [twin EXCEPT !.kd = v]
    /\ before' = pid'
    /\ UNCHANGED <<last, output, twin_output, calls, sum, candvars>>

SetOvershootLimiter(b) ==
    /\ calls = 0
    /\ pid' = [pid EXCEPT !.overshoot_limiter = b]
    /\ twin' = [twin EXCEPT !.overshoot_limiter = b]
    /\ before' = pid'
    /\ UNCHANGED <<last, output, twin_output, calls, sum, candvars>>

SetSetpoint(v) ==
    /\ pid' = [pid EXCEPT !.setpoint = v]
    /\ twin' = [twin EXCEPT !.setpoint = v]
    /\ before' = IF calls = 0 THEN pid' ELSE before
    /\ UNCHANGED <<last, output, twin_output, calls, sum, candvars>>

Update(measured_value, dt) ==
    /\ calls < MaxCalls
    /\ LET r == GetControlVariable(pid, measured_value, dt)
           t == GetControlVariable(twin, measured_value, dt)
       IN  /\ pid' = r.ctl
           /\ output' = r.ret
           /\ twin' = t.ctl
           /\ twin_output' = t.ret
    /\ before' = pid
    /\ last' = [measured_value |-> measured_value, dt |-> dt]
    /\ calls' = calls + 1
    /\ sum' = sum + Error(pid, measured_value) * dt
    /\ UNCHANGED candvars

NextPid ==
    \/ \E v \in KpValues : SetKp(v)
    \/ \E v \in KiValues : SetKi(v)
    \/ \E v \in KiValues : SetTwinKi(v)
    \/ \E v \in KdValues : SetKd(v)
    \/ \E b \in BOOLEAN : SetOvershootLimiter(b)
    \/ \E v \in SetpointValues : SetSetpoint(v)
    \/ \E m \in MeasuredValues, dt \in DtValues : Update(m, dt)

SpecPid == PidInit /\ [][NextPid]_vars

(***************************************************************************)
(* Polynomial (polynomial.h) and Candidate (candidate.h)                   *)
(***************************************************************************)
\* Polynomial::Derivative: coefficients scaled by their power, one degree
\* lower; the derivative of a constant is the zero polynomial
Derivative(p) ==
    IF Len(p) <= 1
    THEN <<0>>
    ELSE [i \in 1 .. (Len(p) - 1) |-> i * p[i + 1]]

\* the members of a Candidate before anything is stored in them: the float
\* members that Initialize does not touch hold an indeterminate value g
RawCandidate(g) ==
    [curve |-> << >>, first_deriv |-> << >>, second_deriv |-> << >>,
     out_of_bounds |-> FALSE, hits_obstacle |-> FALSE,
     cost |-> g, comfortability |-> g, static_safety |-> g,
     segmentation_cost |-> g, dynamic_safety |-> g, rho_final |-> g,
     max_curvature |-> g, max_length |-> g, s0 |-> g, rank |-> g]

InitializeKeepsRank(c, p) ==
    [c EXCEPT !.curve = p,
              !.first_deriv = Derivative(p),
              !.second_deriv = Derivative(Derivative(p)),
              !.out_of_bounds = FALSE,
              !.hits_obstacle = FALSE,
              !.max_curvature = 0,
              !.max_length = 100,
              !.s0 = 0]

\* lines 38-48
Initialize(c, p) ==
    [c EXCEPT !.curve = p,
              !.first_deriv = Derivative(p),
              !.second_deriv = Derivative(Derivative(p)),
              !.out_of_bounds = FALSE,
              !.hits_obstacle = FALSE,
              !.rank = -1,
              !.max_curvature = 0,
              !.max_length = 100,
              !.s0 = 0]

\* lines 30-32
Candidate(p, g) == Initialize(RawCandidate(g), p)

AssignStaleDerivative(a, b) ==
    [a EXCEPT !.curve = b.curve,
              !.first_deriv = b.first_deriv,
              !.out_of_bounds = b.out_of_bounds,
              !.hits_obstacle = b.hits_obstacle,
              !.cost = b.cost,
              !.comfortability = b.comfortability,
              !.static_safety = b.static_safety,
              !.dynamic_safety = b.dynamic_safety,
              !.segmentation_cost = b.segmentation_cost,
              !.rank = b.rank,
              !.max_length = b.max_length,
              !.max_curvature = b.max_curvature,
              !.s0 = b.s0]

\* lines 53-68: operator=, the value of a after a = b (rho_final_ is not
\* among the members it copies)
Assign(a, b) ==
    [a EXCEPT !.curve = b.curve,
              !.first_deriv = b.first_deriv,
              !.second_deriv = b.second_deriv,
              !.out_of_bounds = b.out_of_bounds,
              !.hits_obstacle = b.hits_obstacle,
              !.cost = b.cost,
              !.comfortability = b.comfortability,
              !.static_safety = b.static_safety,
              !.dynamic_safety = b.dynamic_safety,
              !.segmentation_cost = b.segmentation_cost,
              !.rank = b.rank,
              !.max_length = b.max_length,
              !.max_curvature = b.max_curvature,
              !.s0 = b.s0]

\* every candidate has been constructed from a Polynomial; the controller
\* is as its constructor left it
CandInit ==
    /\ \E f \in [CandidateIds -> Polynomials \X Indeterminate] :
          cand = [i \in CandidateIds |-> Candidate(f[i][1], f[i][2])]
    /\ lastc = [op |-> "Candidate", dst |-> 0, src |-> 0, prior |-> << >>]
    /\ ops = 0
    /\ pid = PidController
    /\ twin = PidController
    /\ before = PidController
    /\ last = NoCall
    /\ output = NoOutput
    /\ twin_output = NoOutput
    /\ calls = 0
    /\ sum = 0

Step(op, i, j, c) ==
    /\ ops < MaxOps
    /\ cand' = [cand EXCEPT ![i] = c]
    /\ lastc' = [op |-> op, dst |-> i, src |-> j, prior |-> cand[i]]
    /\ ops' = ops + 1
    /\ UNCHANGED pidvars

DoInitialize(i, p) == Step("Initialize", i, 0, Initialize(cand[i], p))

DoAssign(i, j) == Step("Assign", i, j, Assign(cand[i], cand[j]))

SetOutOfBounds(i, oob) ==
    Step("SetOutOfBounds", i, 0, [cand[i] EXCEPT !.out_of_bounds = oob])

SetHitsObstacle(i, ho) ==
    Step("SetHitsObstacle", i, 0, [cand[i] EXCEPT !.hits_obstacle = ho])

SetCost(i, v) == Step("SetCost", i, 0, [cand[i] EXCEPT !.cost = v])

SetRank(i, r) == Step("SetRank", i, 0, [cand[i] EXCEPT !.rank = r])

SetMaxCurvature(i, v) ==
    Step("SetMaxCurvature", i, 0, [cand[i] EXCEPT !.max_curvature = v])

SetComfortability(i, v) ==
    Step("SetComfortability", i, 0, [cand[i] EXCEPT !.comfortability = v])

SetStaticSafety(i, v) ==
    Step("SetStaticSafety", i, 0, [cand[i] EXCEPT !.static_safety = v])

SetDynamicSafety(i, v) ==
    Step("SetDynamicSafety", i, 0, [cand[i] EXCEPT !.dynamic_safety = v])

SetRhoCost(i, v) == Step("SetRhoCost", i, 0, [cand[i] EXCEPT !.rho_final = v])

SetMaxLength(i, v) ==
    Step("SetMaxLength", i, 0, [cand[i] EXCEPT !.max_length = v])

SetS0(i, v) == Step("SetS0", i, 0, [cand[i] EXCEPT !.s0 = v])

SetSegmentationCost(i, v) ==
    Step("SetSegmentationCost", i, 0,
         [cand[i] EXCEPT !.segmentation_cost = v])

NextCand ==
    \/ \E i \in CandidateIds, p \in Polynomials : DoInitialize(i, p)
    \/ \E i \in CandidateIds, j \in CandidateIds : DoAssign(i, j)
    \/ \E i \in CandidateIds, b \in BOOLEAN : SetOutOfBounds(i, b)
    \/ \E i \in CandidateIds, b \in BOOLEAN : SetHitsObstacle(i, b)
    \/ \E i \in CandidateIds, v \in FloatValues : SetCost(i, v)
    \/ \E i \in CandidateIds, r \in RankValues : SetRank(i, r)
    \/ \E i \in CandidateIds, v \in FloatValues : SetMaxCurvature(i, v)
    \/ \E i \in CandidateIds, v \in FloatValues : SetComfortability(i, v)
    \/ \E i \in CandidateIds, v \in FloatValues : SetStaticSafety(i, v)
    \/ \E i \in CandidateIds, v \in FloatValues : SetDynamicSafety(i, v)
    \/ \E i \in CandidateIds, v \in FloatValues : SetRhoCost(i, v)
    \/ \E i \in CandidateIds, v \in FloatValues : SetMaxLength(i, v)
    \/ \E i \in CandidateIds, v \in FloatValues : SetS0(i, v)
    \/ \E i \in CandidateIds, v \in FloatValues : SetSegmentationCost(i, v)

SpecCand == CandInit /\ [][NextCand]_vars

(***************************************************************************)
(* Properties of the Candidate.  lastc names the most recent operation,    *)
(* its target dst, the source src of an assignment, and prior, the target  *)
(* before the operation.                                                   *)
(***************************************************************************)
DerivativesFresh(c) ==
    /\ c.first_deriv = Derivative(c.curve)
    /\ c.second_deriv = Derivative(c.first_deriv)

\* C4: in every state reached by construction from a Polynomial,
\* Initialize, assignment and the Set* mutators, first_deriv is the
\* derivative of curve and second_deriv the derivative of first_deriv.
C4_DerivativeInvariant == \A i \in DOMAIN cand : DerivativesFresh(cand[i])

\* an assignment, after other operations, that replaced the target's curve
\* by a different, non-zero one
C4_Witness ==
    /\ lastc.op = "Assign" /\ ops > 1
    /\ lastc.prior.curve # cand[lastc.dst].curve
    /\ cand[lastc.dst].curve = <<1, 2, 3, 4>>
    /\ cand[lastc.dst].first_deriv = <<2, 6, 12>>
    /\ cand[lastc.dst].second_deriv = <<6, 24>>

\* C5: after a = b every attribute of a equals the corresponding attribute
\* of b (rho_deviation_cost included) and b is unchanged.
C5_StructuralCopy ==
    [][(lastc'.op = "Assign" /\ ops' = ops + 1)
       => /\ cand'[lastc'.dst] = cand[lastc'.src]
          /\ cand'[lastc'.src] = cand[lastc'.src]]_vars

Defaults(c) ==
    /\ c.out_of_bounds = FALSE
    /\ c.hits_obstacle = FALSE
    /\ c.rank = -1
    /\ c.max_curvature = 0
    /\ c.max_length = 100
    /\ c.s0 = 0

C7_DefaultsAfterInitialize ==
    /\ lastc.op = "Candidate" => \A i \in DOMAIN cand : Defaults(cand[i])
    /\ lastc.op = "Initialize" => Defaults(cand[lastc.dst])

C7_RankKept ==
    \A i \in DOMAIN cand :
       (cand[i].rank = -1 /\ cand'[i].rank # -1)
       => \/ lastc'.op = "SetRank" /\ lastc'.dst = i
          \/ /\ lastc'.op = "Assign" /\ lastc'.dst = i
             /\ cand[lastc'.src].rank # -1

err == before.setpoint - last.measured_value

prev == before.previous_error

OppositeSigns == (err > 0 /\ prev < 0) \/ (err < 0 /\ prev > 0)

\* (err - prev) / dt in units of 1/DerivScale, for dt > 0
Slope == ((err - prev) * DerivScale) \div last.dt

Returned(v) == [status |-> "returned", kind |-> "finite", val |-> v]

\* C1: with the overshoot limiter enabled, a call with dt > 0 whose error
\* has the opposite sign of previous_error (error * previous_error < 0)
\* leaves integral equal to error * dt of that call alone.
C1_AntiWindup ==
    (calls > 0 /\ last.dt > 0 /\ before.overshoot_limiter
        /\ err * prev < 0)
    => pid.integral = err * last.dt

\* a crossing call that found a non-zero accumulation and discarded it
C1_Witness ==
    /\ calls > 1 /\ last.dt > 0 /\ before.overshoot_limiter
    /\ err * prev < 0
    /\ before.integral # 0
    /\ pid.integral = err * last.dt

\* C2: with the limiter enabled and no crossing detected yet when the
\* output is computed, a controller that differs only in ki returns the
\* same output: kp*error + kd*derivative, with no ki contribution.
C2_PreCrossingSuppression ==
    (calls > 0 /\ last.dt > 0 /\ before.overshoot_limiter
        /\ ~pid.crossed_setpoint)
    => /\ twin = [pid EXCEPT !.ki = twin.ki]
       /\ twin_output = output
       /\ output = Returned(before.kp * err * DerivScale + before.kd * Slope)

\* two controllers with different ki, a non-zero integral, no crossing yet
C2_Witness ==
    /\ calls > 1 /\ last.dt > 0 /\ before.overshoot_limiter
    /\ ~pid.crossed_setpoint
    /\ pid.ki # twin.ki /\ pid.ki # 0
    /\ pid.integral # 0
    /\ twin_output = output

\* C3: a call with dt = 0 or dt < 0 is rejected with an error outcome and
\* leaves integral, previous_error and crossed_setpoint untouched.
C3_DegenerateDtRejected ==
    (calls > 0 /\ last.dt <= 0)
    => /\ output.status = "rejected"
       /\ pid.integral = before.integral
       /\ pid.previous_error = before.previous_error
       /\ pid.crossed_setpoint = before.crossed_setpoint

\* C6: a call with dt > 0 adds error*dt to integral (after the reset of a
\* crossing), returns kp*error + ki_eff*integral + kd*(error - previous)/dt
\* with the updated integral, and stores previous_error = error; the first
\* call with the default gains, setpoint 10, measured 0, dt 1 returns 3.5.
C6_UpdateLaw ==
    /\ (calls > 0 /\ last.dt > 0)
       => LET base   == IF before.overshoot_limiter /\ err * prev < 0
                        THEN 0 ELSE before.integral
              ki_eff == IF before.overshoot_limiter /\ ~pid.crossed_setpoint
                        THEN 0 ELSE before.ki
          IN  /\ pid.integral = base + err * last.dt
              /\ output = Returned(before.kp * err * DerivScale
                                   + ki_eff * pid.integral * DerivScale
                                   + before.kd * Slope)
              /\ pid.previous_error = err
    /\ (calls = 1 /\ before = [PidController EXCEPT !.setpoint = 10]
           /\ last = [measured_value |-> 0, dt |-> 1])
       => output = Returned(350 * DerivScale)

\* the worked example: first call, default gains, setpoint 10, measured 0
C6_Witness ==
    /\ calls = 1 /\ before = [PidController EXCEPT !.setpoint = 10]
    /\ last = [measured_value |-> 0, dt |-> 1]
    /\ output = Returned(350 * DerivScale)
    /\ pid.integral = 10 /\ pid.previous_error = 10

\* C8: with the limiter disabled integral is never reset and equals the sum
\* of error*dt over all calls so far, crossed_setpoint stays false and the
\* output uses the configured ki.
C8_LimiterDisabledTextbook ==
    (~pid.overshoot_limiter)
    => /\ pid.integral = sum
       /\ ~pid.crossed_setpoint
       /\ (calls > 0 /\ last.dt > 0)
          => output = Returned(before.kp * err * DerivScale
                               + before.ki * pid.integral * DerivScale
                               + before.kd * Slope)

\* limiter off, the error changed sign, the accumulation was kept
C8_Witness ==
    /\ ~pid.overshoot_limiter
    /\ calls > 1 /\ last.dt > 0
    /\ err * prev < 0
    /\ before.integral # 0 /\ pid.ki # 0
    /\ pid.integral = before.integral + err * last.dt

\* C9: crossed_setpoint is false after construction, never goes back to
\* false, and once it is true the output uses the configured ki.
C9_CrossedLatch ==
    /\ calls = 0 => ~pid.crossed_setpoint
    /\ before.crossed_setpoint => pid.crossed_setpoint
    /\ (calls > 0 /\ last.dt > 0 /\ before.overshoot_limiter
            /\ before.crossed_setpoint)
       => output = Returned(before.kp * err * DerivScale
                            + before.ki * pid.integral * DerivScale
                            + before.kd * Slope)

\* a call after the crossing that is itself no crossing
C9_Witness ==
    /\ calls > 2 /\ last.dt > 0 /\ before.overshoot_limiter
    /\ before.crossed_setpoint /\ pid.crossed_setpoint
    /\ ~OppositeSigns
    /\ before.ki # 0 /\ pid.integral # 0

====
